---- MODULE Spec2Model ----
(***************************************************************************)
(* The Lifecycle middleware of async-lsp (src/src/server.rs): a state      *)
(* machine wrapped around an inner LspService.  The inner service is any   *)
(* implementation of the trait, so the values it returns are chosen        *)
(* nondeterministically and the messages it receives are recorded.         *)
(***************************************************************************)
EXTENDS Integers, Sequences, FiniteSets, TLC

----------------------------------------------------------------------------
(* Bounds *)

\* Number of requests, notifications and events delivered to the middleware.
MaxOps == 4

----------------------------------------------------------------------------
(* enum State, in declaration order *)

Uninitialized == "Uninitialized"
Initializing  == "Initializing"
Ready         == "Ready"
ShuttingDown  == "ShuttingDown"

State == {Uninitialized, Initializing, Ready, ShuttingDown}

\* The states in the declaration order of the enum.
StateOrder == <<Uninitialized, Initializing, Ready, ShuttingDown>>

(* Method names matched by the middleware *)
Initialize_METHOD  == "initialize"
Shutdown_METHOD    == "shutdown"
Exit_METHOD        == "exit"
Initialized_METHOD == "initialized"

\* Request methods delivered to call(): the two the middleware matches and
\* two it does not.
RequestMethods ==
    {Initialize_METHOD, Shutdown_METHOD, "textDocument/hover", "textDocument/definition"}

\* Notification methods delivered to notify().
NotificationMethods ==
    {Exit_METHOD, Initialized_METHOD, "textDocument/didOpen", "$/cancelRequest"}

\* Events delivered to emit().
Events == {"TickEvent"}

(* Error codes used by the middleware *)
SERVER_NOT_INITIALIZED == "SERVER_NOT_INITIALIZED"
INVALID_REQUEST        == "INVALID_REQUEST"

(* ControlFlow<Result<()>> *)
Continue     == [tag |-> "Continue", err |-> "none"]
BreakOk      == [tag |-> "Break", err |-> "Ok"]
BreakErr(e)  == [tag |-> "Break", err |-> e]

\* What the inner service may return from notify() and emit().
InnerControlFlow == {Continue, BreakOk, BreakErr("Protocol"), BreakErr("Other")}

\* Recorded as the inner service's answer when it was not asked.
NotCalled == [tag |-> "NotCalled", err |-> "none"]

\* What the inner service may return from poll_ready().
InnerPoll == {"ReadyOk", "ReadyErr", "Pending"}

----------------------------------------------------------------------------
(* The omni traits (src/src/omni_trait.rs): LanguageServer and             *)
(* LanguageClient with their default hooks, and the Routers built from an  *)
(* implementer.  A hook is named by its method name in the trait.          *)

\* Number of messages dispatched on a Router built from an implementer.
MaxDispatch == 2

\* Number of hooks an implementer defines beyond those without a default.
MaxOverrides == 2

METHOD_NOT_FOUND == "METHOD_NOT_FOUND"

Ok == [result |-> "Ok", code |-> "none"]
Err(code) == [result |-> "Err", code |-> code]

\* The characters of the notification method names, for starts_with.
Chars(method) ==
    CASE method = "exit" ->
           <<"e", "x", "i", "t">>
      [] method = "initialized" ->
           <<"i", "n", "i", "t", "i", "a", "l", "i", "z", "e", "d">>
      [] method = "textDocument/didOpen" ->
           <<"t", "e", "x", "t", "D", "o", "c", "u", "m", "e", "n", "t", "/", "d", "i", "d", "O", "p", "e", "n">>
      [] method = "workspace/didChangeConfiguration" ->
           <<"w", "o", "r", "k", "s", "p", "a", "c", "e", "/", "d", "i", "d", "C", "h", "a", "n", "g", "e", "C", "o", "n", "f", "i", "g", "u", "r", "a", "t", "i", "o", "n">>
      [] method = "$/cancelRequest" ->
           <<"$", "/", "c", "a", "n", "c", "e", "l", "R", "e", "q", "u", "e", "s", "t">>
      [] method = "$/setTrace" ->
           <<"$", "/", "s", "e", "t", "T", "r", "a", "c", "e">>
      [] method = "window/showMessage" ->
           <<"w", "i", "n", "d", "o", "w", "/", "s", "h", "o", "w", "M", "e", "s", "s", "a", "g", "e">>
      [] method = "textDocument/publishDiagnostics" ->
           <<"t", "e", "x", "t", "D", "o", "c", "u", "m", "e", "n", "t", "/", "p", "u", "b", "l", "i", "s", "h", "D", "i", "a", "g", "n", "o", "s", "t", "i", "c", "s">>
      [] method = "telemetry/event" ->
           <<"t", "e", "l", "e", "m", "e", "t", "r", "y", "/", "e", "v", "e", "n", "t">>
      [] method = "$/progress" ->
           <<"$", "/", "p", "r", "o", "g", "r", "e", "s", "s">>
      [] method = "$/logTrace" ->
           <<"$", "/", "l", "o", "g", "T", "r", "a", "c", "e">>
      [] method = "custom/unknown" ->
           <<"c", "u", "s", "t", "o", "m", "/", "u", "n", "k", "n", "o", "w", "n">>
      [] method = "$/unknown" ->
           <<"$", "/", "u", "n", "k", "n", "o", "w", "n">>

\* str::starts_with
starts_with(s, prefix) ==
    /\ Len(s) >= Len(prefix)
    /\ SubSeq(s, 1, Len(prefix)) = prefix

\* Faulty variant of fallback: the two branches are exchanged.
fallback_exchanged(method) ==
    IF starts_with(Chars(method), <<"$", "/">>)
    THEN BreakErr("Protocol")
    ELSE Continue

\* <ControlFlow<Result<()>> as NotifyResult>::fallback::<N>, N::METHOD = method
fallback(method) ==
    IF starts_with(Chars(method), <<"$", "/">>)
    THEN Continue
    ELSE BreakErr("Protocol")

\* Faulty variant of method_not_found: another error code.
method_not_found_invalid_request(method) == Err(INVALID_REQUEST)

\* method_not_found::<R, E>, R::METHOD = method.  The implementer's Error is
\* ResponseError, as in the examples, so `.into()` keeps the code.
method_not_found(method) == Err(METHOD_NOT_FOUND)

\* The method lists the traits are generated from, as <<method, hook>>.
\* Requests of the server, besides `initialize` and `shutdown`.
ServerRequests ==
    << <<"textDocument/hover", "hover">>,
       <<"textDocument/definition", "definition">> >>

\* Notifications of the server, besides `exit`.
ServerNotifications ==
    << <<Initialized_METHOD, "initialized">>,
       <<"textDocument/didOpen", "did_open">>,
       <<"workspace/didChangeConfiguration", "did_change_configuration">>,
       <<"$/cancelRequest", "cancel_request">>,
       <<"$/setTrace", "set_trace">> >>

ClientRequests ==
    << <<"workspace/configuration", "configuration">>,
       <<"window/showMessageRequest", "show_message_request">> >>

ClientNotifications ==
    << <<"window/showMessage", "show_message">>,
       <<"textDocument/publishDiagnostics", "publish_diagnostics">>,
       <<"telemetry/event", "telemetry_event">>,
       <<"$/progress", "progress">>,
       <<"$/logTrace", "log_trace">> >>

Range(list) == {list[i] : i \in 1..Len(list)}

\* The method a hook of a list stands for.
MethodOf(list, hook) == (CHOOSE e \in Range(list) : e[2] = hook)[1]

HooksOf(list) == {e[2] : e \in Range(list)}

NoDefault == [result |-> "NoDefault", code |-> "none"]

\* Faulty variant: `shutdown` is generated like the other requests.
LanguageServer_request_generated_shutdown(hook) ==
    IF hook = "initialize" THEN NoDefault
    ELSE IF hook = "shutdown" THEN method_not_found(Shutdown_METHOD)
    ELSE method_not_found(MethodOf(ServerRequests, hook))

\* trait LanguageServer: the default body of a request hook.
LanguageServer_request(hook) ==
    IF hook = "initialize" THEN NoDefault
    ELSE IF hook = "shutdown" THEN Ok
    ELSE method_not_found(MethodOf(ServerRequests, hook))

\* trait LanguageServer: the default body of a notification hook.
LanguageServer_notification(hook) ==
    IF hook = "exit" THEN BreakOk
    ELSE fallback(MethodOf(ServerNotifications, hook))

\* trait LanguageClient: the default body of a request hook.
LanguageClient_request(hook) ==
    method_not_found(MethodOf(ClientRequests, hook))

\* trait LanguageClient, NotifyResult = ControlFlow<Result<()>>: the default
\* body of a notification hook.
LanguageClient_notification(hook) ==
    fallback(MethodOf(ClientNotifications, hook))

\* The hooks of a trait, and those an implementer has to define.
RequestHooks(side) ==
    IF side = "server" THEN {"initialize", "shutdown"} \cup HooksOf(ServerRequests)
    ELSE HooksOf(ClientRequests)

NotificationHooks(side) ==
    IF side = "server" THEN {"exit"} \cup HooksOf(ServerNotifications)
    ELSE HooksOf(ClientNotifications)

RequestDefault(side, hook) ==
    IF side = "server" THEN LanguageServer_request(hook) ELSE LanguageClient_request(hook)

NotificationDefault(side, hook) ==
    IF side = "server" THEN LanguageServer_notification(hook)
    ELSE LanguageClient_notification(hook)

Required(side) == {h \in RequestHooks(side) : RequestDefault(side, h) = NoDefault}

(* Router: the handler tables, method |-> hook of the implementer. *)

Router_new == [request_handlers |-> << >>, notification_handlers |-> << >>]

Insert(map, key, value) ==
    [k \in DOMAIN map \cup {key} |-> IF k = key THEN value ELSE map[k]]

\* Router::request::<R, _>(|state, params| state.hook(params))
Router_request(this, method, hook) ==
    [this EXCEPT !.request_handlers = Insert(@, method, hook)]

\* Router::notification::<N>(|state, params| state.hook(params))
Router_notification(this, method, hook) ==
    [this EXCEPT !.notification_handlers = Insert(@, method, hook)]

RECURSIVE RequestAll(_, _)
RequestAll(this, list) ==
    IF list = <<>> THEN this
    ELSE RequestAll(Router_request(this, Head(list)[1], Head(list)[2]), Tail(list))

RECURSIVE NotificationAll(_, _)
NotificationAll(this, list) ==
    IF list = <<>> THEN this
    ELSE NotificationAll(Router_notification(this, Head(list)[1], Head(list)[2]), Tail(list))

\* Faulty variant: the registration of Exit is missing.
from_language_server_without_exit ==
    LET this1 == Router_request(Router_new, Initialize_METHOD, "initialize")
        this2 == Router_request(this1, Shutdown_METHOD, "shutdown")
        this3 == RequestAll(this2, ServerRequests)
    IN NotificationAll(this3, ServerNotifications)

\* Router::from_language_server
from_language_server ==
    LET this1 == Router_request(Router_new, Initialize_METHOD, "initialize")
        this2 == Router_request(this1, Shutdown_METHOD, "shutdown")
        this3 == RequestAll(this2, ServerRequests)
        this4 == Router_notification(this3, Exit_METHOD, "exit")
    IN NotificationAll(this4, ServerNotifications)

\* Router::from_language_client
from_language_client ==
    NotificationAll(RequestAll(Router_new, ClientRequests), ClientNotifications)

\* Router: the hook a request or notification is dispatched to, "" when no
\* handler is registered for the method.
Lookup(handlers, method) ==
    IF method \in DOMAIN handlers THEN handlers[method] ELSE ""

\* Router: the defaults of unhandled_request and unhandled_notification.
unhandled_request(method) == Err(METHOD_NOT_FOUND)
unhandled_notification(method) == fallback(method)

\* The methods dispatched on the Routers: those of the traits and one
\* unknown to them of each kind.
DispatchedRequests(side) ==
    (IF side = "server"
     THEN {Initialize_METHOD, Shutdown_METHOD} \cup {e[1] : e \in Range(ServerRequests)}
     ELSE {e[1] : e \in Range(ClientRequests)}) \cup {"custom/unknown"}

DispatchedNotifications(side) ==
    (IF side = "server"
     THEN {Exit_METHOD} \cup {e[1] : e \in Range(ServerNotifications)}
     ELSE {e[1] : e \in Range(ClientNotifications)}) \cup {"custom/unknown", "$/unknown"}

----------------------------------------------------------------------------
VARIABLES
    state,      \* Lifecycle.state
    service,    \* the messages the inner service has received, in order
    inputs,     \* the messages delivered to the middleware, in order
    trace,      \* the distinct values `state` has taken, in order
    last,       \* the last operation: its input, the state and the number of
                \* messages the inner service had received before it, what
                \* the inner service answered and what the operation returned
    futures,    \* per message of `service`: the state of the future the inner
                \* service returned for it ("-" for notifications and events)
    counter,    \* ServerState.counter of simple_server
    reached,    \* the layers of the simple_server stack the last request
                \* passed through, outermost first
    permits,    \* concurrency permits held by requests in flight
    side,       \* the trait a Router was built from: "server", "client", or
                \* "none" when the middleware is under study
    overrides,  \* the hooks the implementer defines itself
    router,     \* the handler tables of the Router built from the implementer
    invoked,    \* the hooks of the implementer invoked so far, in order
    olast,      \* the last dispatch on the Router and what it returned
    indexed_tx, \* ClientState.indexed_tx of client_trait: "Some" or "None"
    signalled,  \* the number of values sent on the indexed channel
    progress_log, \* the progress notifications delivered to ClientState
    plast       \* the last call of ClientState::progress and what it did

lifecycle_vars ==
    <<state, service, inputs, trace, last, futures, counter, reached, permits>>

omni_vars == <<side, overrides, router, invoked, olast>>

client_vars == <<indexed_tx, signalled, progress_log, plast>>

vars == <<lifecycle_vars, omni_vars, client_vars>>

Msg(kind, method) == [kind |-> kind, method |-> method]

\* Either::Left(self.service.call(req)): the inner service's future.
Left(fut) == [either |-> "Left", fut |-> fut, code |-> "none"]
\* Either::Right(ready(Err(ResponseError { code, .. })))
Right(code) == [either |-> "Right", fut |-> 0, code |-> code]

----------------------------------------------------------------------------
(* The service stack built by main of simple_server. *)

\* Faulty variant: LifecycleLayer is given to the builder last.
main_layers_lifecycle_last ==
    <<"CatchUnwind", "Concurrency", "ClientProcessMonitor", "Lifecycle">>

\* The layers in the order main gives them to the builder.
main_layers == <<"Lifecycle", "CatchUnwind", "Concurrency", "ClientProcessMonitor">>

\* The service the layers are put around.
main_service == "Router"

\* ServiceBuilder: the layers are applied in the order given, the first one
\* outermost, around the service.  The stack is listed outermost first.
ServiceBuilder(layers, svc) == layers \o <<svc>>

\* The part of a stack a request passes through: every layer hands the
\* request to the next one, except that Lifecycle does so only when its call
\* forwards.
Passes(stack, forward) ==
    LET p == CHOOSE i \in 1..Len(stack) : stack[i] = "Lifecycle"
    IN IF forward THEN stack ELSE SubSeq(stack, 1, p)

\* Concurrency takes one permit for each request that reaches it.
Acquired(layers_reached) ==
    IF \E i \in 1..Len(layers_reached) : layers_reached[i] = "Concurrency" THEN 1 ELSE 0

\* The handler of TickEvent registered on the Router.
TickEvent_handler(c) == c + 1

\* Polling the future call returned: Either::Left yields what the inner
\* service's future yields, Either::Right the error it was made with.
Either_poll(ret, output) ==
    IF ret.either = "Left" THEN output ELSE [result |-> "Err", code |-> ret.code]

\* What the inner service's future may yield.
InnerOutput == {[result |-> "Ok", code |-> "none"], [result |-> "Err", code |-> "REQUEST_FAILED"]}

----------------------------------------------------------------------------
(* Lifecycle::new *)

\* No Router built from an implementer.
OmniIdle ==
    /\ side = "none"
    /\ overrides = {}
    /\ router = Router_new
    /\ invoked = <<>>
    /\ olast = [kind |-> "none", method |-> "", hook |-> "", before |-> 0,
                impl |-> NoDefault, ret |-> NoDefault]

\* No ClientState under study.
ClientIdle ==
    /\ indexed_tx = "None"
    /\ signalled = 0
    /\ progress_log = <<>>
    /\ plast = [op |-> "none", pre |-> "None", ret |-> NotCalled]

Init ==
    /\ OmniIdle
    /\ ClientIdle
    /\ state = Uninitialized
    /\ service = <<>>
    /\ inputs = <<>>
    /\ trace = <<Uninitialized>>
    /\ last = [op |-> "new", method |-> "", pre |-> Uninitialized,
               received |-> 0, inner |-> "none", ret |-> "none"]
    /\ futures = <<>>
    /\ counter = 0
    /\ reached = <<>>
    /\ permits = 0

----------------------------------------------------------------------------
(* Faulty variants of call, each one slip away from the source. *)

\* The first arm forwards `initialize` without recording the transition.
call_keeps_uninitialized(st, method, fut) ==
    IF st = Uninitialized /\ method = Initialize_METHOD
    THEN [state |-> st, forward |-> TRUE, ret |-> Left(fut)]
    ELSE IF st \in {Uninitialized, Initializing}
    THEN [state |-> st, forward |-> FALSE, ret |-> Right(SERVER_NOT_INITIALIZED)]
    ELSE IF method = Initialize_METHOD
    THEN [state |-> st, forward |-> FALSE, ret |-> Right(INVALID_REQUEST)]
    ELSE IF st = Ready
    THEN [state |-> IF method = Shutdown_METHOD THEN ShuttingDown ELSE st,
          forward |-> TRUE, ret |-> Left(fut)]
    ELSE [state |-> st, forward |-> FALSE, ret |-> Right(INVALID_REQUEST)]

\* The second arm names only State::Uninitialized.
call_rejects_only_uninitialized(st, method, fut) ==
    IF st = Uninitialized /\ method = Initialize_METHOD
    THEN [state |-> Initializing, forward |-> TRUE, ret |-> Left(fut)]
    ELSE IF st = Uninitialized
    THEN [state |-> st, forward |-> FALSE, ret |-> Right(SERVER_NOT_INITIALIZED)]
    ELSE IF method = Initialize_METHOD
    THEN [state |-> st, forward |-> FALSE, ret |-> Right(INVALID_REQUEST)]
    ELSE IF st = Ready
    THEN [state |-> IF method = Shutdown_METHOD THEN ShuttingDown ELSE st,
          forward |-> TRUE, ret |-> Left(fut)]
    ELSE [state |-> st, forward |-> FALSE, ret |-> Right(INVALID_REQUEST)]

\* The second and third arms are swapped.
call_arms_swapped(st, method, fut) ==
    IF st = Uninitialized /\ method = Initialize_METHOD
    THEN [state |-> Initializing, forward |-> TRUE, ret |-> Left(fut)]
    ELSE IF method = Initialize_METHOD
    THEN [state |-> st, forward |-> FALSE, ret |-> Right(INVALID_REQUEST)]
    ELSE IF st \in {Uninitialized, Initializing}
    THEN [state |-> st, forward |-> FALSE, ret |-> Right(SERVER_NOT_INITIALIZED)]
    ELSE IF st = Ready
    THEN [state |-> IF method = Shutdown_METHOD THEN ShuttingDown ELSE st,
          forward |-> TRUE, ret |-> Left(fut)]
    ELSE [state |-> st, forward |-> FALSE, ret |-> Right(INVALID_REQUEST)]

\* The Ready arm forwards without looking for `shutdown`.
call_ignores_shutdown(st, method, fut) ==
    IF st = Uninitialized /\ method = Initialize_METHOD
    THEN [state |-> Initializing, forward |-> TRUE, ret |-> Left(fut)]
    ELSE IF st \in {Uninitialized, Initializing}
    THEN [state |-> st, forward |-> FALSE, ret |-> Right(SERVER_NOT_INITIALIZED)]
    ELSE IF method = Initialize_METHOD
    THEN [state |-> st, forward |-> FALSE, ret |-> Right(INVALID_REQUEST)]
    ELSE IF st = Ready
    THEN [state |-> st, forward |-> TRUE, ret |-> Left(fut)]
    ELSE [state |-> st, forward |-> FALSE, ret |-> Right(INVALID_REQUEST)]

\* The Ready arm also takes State::ShuttingDown.
call_forwards_when_shutting_down(st, method, fut) ==
    IF st = Uninitialized /\ method = Initialize_METHOD
    THEN [state |-> Initializing, forward |-> TRUE, ret |-> Left(fut)]
    ELSE IF st \in {Uninitialized, Initializing}
    THEN [state |-> st, forward |-> FALSE, ret |-> Right(SERVER_NOT_INITIALIZED)]
    ELSE IF method = Initialize_METHOD
    THEN [state |-> st, forward |-> FALSE, ret |-> Right(INVALID_REQUEST)]
    ELSE [state |-> IF method = Shutdown_METHOD THEN ShuttingDown ELSE st,
          forward |-> TRUE, ret |-> Left(fut)]

\* The first arm takes `initialize` in every state.
call_reinitializes(st, method, fut) ==
    IF method = Initialize_METHOD
    THEN [state |-> Initializing, forward |-> TRUE, ret |-> Left(fut)]
    ELSE IF st \in {Uninitialized, Initializing}
    THEN [state |-> st, forward |-> FALSE, ret |-> Right(SERVER_NOT_INITIALIZED)]
    ELSE IF st = Ready
    THEN [state |-> IF method = Shutdown_METHOD THEN ShuttingDown ELSE st,
          forward |-> TRUE, ret |-> Left(fut)]
    ELSE [state |-> st, forward |-> FALSE, ret |-> Right(INVALID_REQUEST)]

----------------------------------------------------------------------------
(* <Lifecycle as Service<AnyRequest>>::call, as a function of the state,   *)
(* the request's method and the future the inner service returns when the  *)
(* request reaches it: the new state, whether the inner service is called, *)
(* and the future returned.                                                *)

call(st, method, fut) ==
    IF st = Uninitialized /\ method = Initialize_METHOD
    THEN [state |-> Initializing, forward |-> TRUE, ret |-> Left(fut)]
    ELSE IF st \in {Uninitialized, Initializing}
    THEN [state |-> st, forward |-> FALSE, ret |-> Right(SERVER_NOT_INITIALIZED)]
    ELSE IF method = Initialize_METHOD
    THEN [state |-> st, forward |-> FALSE, ret |-> Right(INVALID_REQUEST)]
    ELSE IF st = Ready
    THEN [state |-> IF method = Shutdown_METHOD THEN ShuttingDown ELSE st,
          forward |-> TRUE, ret |-> Left(fut)]
    ELSE [state |-> st, forward |-> FALSE, ret |-> Right(INVALID_REQUEST)]

(* Faulty variants of notify, each one slip away from the source. *)

\* The `exit` arm is missing: `exit` falls to the catch-all.
notify_without_exit_arm(st, method, inner) ==
    IF method = Initialized_METHOD
    THEN IF st # Initializing
         THEN [state |-> st, forward |-> FALSE, ret |-> BreakErr("Protocol")]
         ELSE [state |-> Ready, forward |-> FALSE, ret |-> Continue]
    ELSE [state |-> st, forward |-> TRUE, ret |-> inner]

\* The guard of the `initialized` arm tests for State::Uninitialized.
notify_guard_uninitialized(st, method, inner) ==
    IF method = Exit_METHOD
    THEN [state |-> st, forward |-> FALSE, ret |-> BreakOk]
    ELSE IF method = Initialized_METHOD
    THEN IF st = Uninitialized
         THEN [state |-> st, forward |-> FALSE, ret |-> BreakErr("Protocol")]
         ELSE [state |-> Ready, forward |-> FALSE, ret |-> Continue]
    ELSE [state |-> st, forward |-> TRUE, ret |-> inner]

\* The catch-all delivers the notification and discards the answer.
notify_discards_answer(st, method, inner) ==
    IF method = Exit_METHOD
    THEN [state |-> st, forward |-> FALSE, ret |-> BreakOk]
    ELSE IF method = Initialized_METHOD
    THEN IF st # Initializing
         THEN [state |-> st, forward |-> FALSE, ret |-> BreakErr("Protocol")]
         ELSE [state |-> Ready, forward |-> FALSE, ret |-> Continue]
    ELSE [state |-> st, forward |-> TRUE, ret |-> Continue]

\* The `exit` arm records a transition to State::ShuttingDown.
notify_exit_shuts_down(st, method, inner) ==
    IF method = Exit_METHOD
    THEN [state |-> ShuttingDown, forward |-> FALSE, ret |-> BreakOk]
    ELSE IF method = Initialized_METHOD
    THEN IF st # Initializing
         THEN [state |-> st, forward |-> FALSE, ret |-> BreakErr("Protocol")]
         ELSE [state |-> Ready, forward |-> FALSE, ret |-> Continue]
    ELSE [state |-> st, forward |-> TRUE, ret |-> inner]

\* The guard of the `initialized` arm is inverted.
notify_guard_inverted(st, method, inner) ==
    IF method = Exit_METHOD
    THEN [state |-> st, forward |-> FALSE, ret |-> BreakOk]
    ELSE IF method = Initialized_METHOD
    THEN IF st = Initializing
         THEN [state |-> st, forward |-> FALSE, ret |-> BreakErr("Protocol")]
         ELSE [state |-> Ready, forward |-> FALSE, ret |-> Continue]
    ELSE [state |-> st, forward |-> TRUE, ret |-> inner]

\* The `initialized` arm hands the notification on after the transition.
notify_forwards_initialized(st, method, inner) ==
    IF method = Exit_METHOD
    THEN [state |-> st, forward |-> FALSE, ret |-> BreakOk]
    ELSE IF method = Initialized_METHOD
    THEN IF st # Initializing
         THEN [state |-> st, forward |-> FALSE, ret |-> BreakErr("Protocol")]
         ELSE [state |-> Ready, forward |-> TRUE, ret |-> inner]
    ELSE [state |-> st, forward |-> TRUE, ret |-> inner]

(* <Lifecycle as LspService>::notify, as a function of the state, the      *)
(* notification's method and the value the inner service returns when the  *)
(* notification reaches it.                                                *)

notify(st, method, inner) ==
    IF method = Exit_METHOD
    THEN [state |-> st, forward |-> FALSE, ret |-> BreakOk]
    ELSE IF method = Initialized_METHOD
    THEN IF st # Initializing
         THEN [state |-> st, forward |-> FALSE, ret |-> BreakErr("Protocol")]
         ELSE [state |-> Ready, forward |-> FALSE, ret |-> Continue]
    ELSE [state |-> st, forward |-> TRUE, ret |-> inner]

\* Faulty variant of emit: events are dropped until the server is Ready.
emit_gated(st, event, inner) ==
    IF st \in {Ready, ShuttingDown}
    THEN [state |-> st, forward |-> TRUE, ret |-> inner]
    ELSE [state |-> st, forward |-> FALSE, ret |-> Continue]

(* <Lifecycle as LspService>::emit *)

emit(st, event, inner) ==
    [state |-> st, forward |-> TRUE, ret |-> inner]

(* <Lifecycle as Service<AnyRequest>>::poll_ready *)

poll_ready(st, inner) ==
    [state |-> st, forward |-> TRUE, ret |-> inner]

----------------------------------------------------------------------------
(* Operations *)

Observe(st) == IF st = state THEN trace ELSE Append(trace, st)

Call ==
    /\ Len(inputs) < MaxOps
    /\ \E method \in RequestMethods :
        LET fut == Len(service) + 1
            r == call(state, method, fut)
            req == Msg("request", method)
            svc == IF r.forward THEN Append(service, req) ELSE service
        IN /\ state' = r.state
           /\ service' = svc
           /\ inputs' = Append(inputs, req)
           /\ trace' = Observe(r.state)
           /\ last' = [op |-> "call", method |-> method, pre |-> state,
                       received |-> Len(service),
                       inner |-> IF r.forward THEN fut ELSE 0,
                       ret |-> r.ret]
           /\ futures' = IF r.forward THEN Append(futures, "pending") ELSE futures
           /\ LET through == Passes(ServiceBuilder(main_layers, main_service), r.forward)
              IN /\ reached' = through
                 /\ permits' = permits + Acquired(through)
           /\ UNCHANGED <<counter, omni_vars, client_vars>>

Notify ==
    /\ Len(inputs) < MaxOps
    /\ \E method \in NotificationMethods, inner \in InnerControlFlow :
        LET r == notify(state, method, inner)
            notif == Msg("notification", method)
        IN /\ state' = r.state
           /\ service' = IF r.forward THEN Append(service, notif) ELSE service
           /\ inputs' = Append(inputs, notif)
           /\ trace' = Observe(r.state)
           /\ last' = [op |-> "notify", method |-> method, pre |-> state,
                       received |-> Len(service),
                       inner |-> IF r.forward THEN inner ELSE NotCalled,
                       ret |-> r.ret]
           /\ futures' = IF r.forward THEN Append(futures, "-") ELSE futures
           /\ UNCHANGED <<counter, reached, permits, omni_vars, client_vars>>

Emit ==
    /\ Len(inputs) < MaxOps
    /\ \E event \in Events, inner \in InnerControlFlow :
        LET r == emit(state, event, inner)
            ev == Msg("event", event)
        IN /\ state' = r.state
           /\ service' = IF r.forward THEN Append(service, ev) ELSE service
           /\ inputs' = Append(inputs, ev)
           /\ trace' = Observe(r.state)
           /\ last' = [op |-> "emit", method |-> event, pre |-> state,
                       received |-> Len(service),
                       inner |-> IF r.forward THEN inner ELSE NotCalled,
                       ret |-> r.ret]
           /\ futures' = IF r.forward THEN Append(futures, "-") ELSE futures
           /\ counter' = IF r.forward /\ event = "TickEvent"
                         THEN TickEvent_handler(counter) ELSE counter
           /\ UNCHANGED <<reached, permits, omni_vars, client_vars>>

PollReady ==
    /\ \E inner \in InnerPoll :
        LET r == poll_ready(state, inner)
        IN /\ state' = r.state
           /\ trace' = Observe(r.state)
           /\ last' = [op |-> "poll_ready", method |-> "", pre |-> state,
                       received |-> Len(service), inner |-> inner, ret |-> r.ret]
    /\ UNCHANGED <<service, inputs, futures, counter, reached, permits, omni_vars, client_vars>>

\* A future returned by call for a forwarded request completes: the
\* middleware has no code on this path, the output is the inner service's.
Resolve ==
    \E i \in 1..Len(futures), output \in InnerOutput :
        /\ futures[i] = "pending"
        /\ futures' = [futures EXCEPT ![i] = Either_poll(Left(i), output).result]
        /\ permits' = permits - 1
        /\ last' = [op |-> "resolve", method |-> service[i].method, pre |-> state,
                    received |-> Len(service), inner |-> output,
                    ret |-> Either_poll(Left(i), output)]
        /\ UNCHANGED <<state, service, inputs, trace, counter, reached, omni_vars, client_vars>>

Next == Call \/ Notify \/ Emit \/ PollReady \/ Resolve

Spec == Init /\ [][Next]_vars

----------------------------------------------------------------------------
(* Routers built from implementers of the omni traits: an implementer     *)
(* defines the hooks without a default and up to MaxOverrides others, and  *)
(* requests and notifications are dispatched on the Router built from it.  *)

OmniInit ==
    /\ ClientIdle
    /\ side \in {"server", "client"}
    /\ overrides \in
        {Required(side) \cup x :
            x \in {y \in SUBSET ((RequestHooks(side) \cup NotificationHooks(side))
                                    \ Required(side)) :
                        Cardinality(y) <= MaxOverrides}}
    /\ router = IF side = "server" THEN from_language_server ELSE from_language_client
    /\ invoked = <<>>
    /\ olast = [kind |-> "none", method |-> "", hook |-> "", before |-> 0,
                impl |-> NoDefault, ret |-> NoDefault]
    /\ state = Uninitialized
    /\ service = <<>>
    /\ inputs = <<>>
    /\ trace = <<Uninitialized>>
    /\ last = [op |-> "new", method |-> "", pre |-> Uninitialized,
               received |-> 0, inner |-> "none", ret |-> "none"]
    /\ futures = <<>>
    /\ counter = 0
    /\ reached = <<>>
    /\ permits = 0

\* Router::call: the handler registered for the method invokes the hook and
\* yields what its future yields (the error through Into::into, which keeps
\* a ResponseError as it is); without a handler, unhandled_request.
RouterCall ==
    /\ Len(invoked) < MaxDispatch
    /\ \E method \in DispatchedRequests(side), answer \in InnerOutput :
        LET hook == Lookup(router.request_handlers, method)
            impl == IF hook = "" THEN NoDefault
                    ELSE IF hook \in overrides THEN answer
                    ELSE RequestDefault(side, hook)
        IN /\ invoked' = IF hook = "" THEN invoked ELSE Append(invoked, hook)
           /\ olast' = [kind |-> "request", method |-> method, hook |-> hook,
                        before |-> Len(invoked), impl |-> impl,
                        ret |-> IF hook = "" THEN unhandled_request(method) ELSE impl]
    /\ UNCHANGED <<side, overrides, router, lifecycle_vars, client_vars>>

\* Router::notify: the handler registered for the method invokes the hook
\* and returns what it returns; without a handler, unhandled_notification.
RouterNotify ==
    /\ Len(invoked) < MaxDispatch
    /\ \E method \in DispatchedNotifications(side), answer \in InnerControlFlow :
        LET hook == Lookup(router.notification_handlers, method)
            impl == IF hook = "" THEN NotCalled
                    ELSE IF hook \in overrides THEN answer
                    ELSE NotificationDefault(side, hook)
        IN /\ invoked' = IF hook = "" THEN invoked ELSE Append(invoked, hook)
           /\ olast' = [kind |-> "notification", method |-> method, hook |-> hook,
                        before |-> Len(invoked), impl |-> impl,
                        ret |-> IF hook = "" THEN unhandled_notification(method) ELSE impl]
    /\ UNCHANGED <<side, overrides, router, lifecycle_vars, client_vars>>

OmniNext == RouterCall \/ RouterNotify

SpecOmni == OmniInit /\ [][OmniNext]_vars

----------------------------------------------------------------------------
(* ClientState of the client_trait example (src/examples/client_trait.rs)  *)
(* and its `progress` hook.                                                *)

\* Number of progress notifications delivered to ClientState.
MaxProgress == 3

\* ProgressParams.token: NumberOrString.
Tokens ==
    {[kind |-> "String", s |-> "rustAnalyzer/Indexing"],
     [kind |-> "String", s |-> "rustAnalyzer/Fetching"],
     [kind |-> "Number", n |-> 1]}

\* ProgressParams.value: ProgressParamsValue::WorkDone(WorkDoneProgress::_).
WorkDone == {"Begin", "Report", "End"}

\* The handler unwinds: `unwrap` on None.
Panic == [tag |-> "Panic", err |-> "unwrap on None"]

\* ClientState::progress, as a function of indexed_tx and the parameters:
\* the new indexed_tx, the number of values sent on the channel, and what
\* the call returns.  `take` empties indexed_tx before `unwrap` looks at
\* what it held.
progress(tx, token, value) ==
    IF /\ token.kind = "String" /\ token.s = "rustAnalyzer/Indexing"
       /\ value = "End"
    THEN IF tx = "Some"
         THEN [indexed_tx |-> "None", sent |-> 1, ret |-> Continue]
         ELSE [indexed_tx |-> "None", sent |-> 0, ret |-> Panic]
    ELSE [indexed_tx |-> tx, sent |-> 0, ret |-> Continue]

\* ClientState::new_router: indexed_tx: Some(indexed_tx).
ClientInit ==
    /\ indexed_tx = "Some"
    /\ signalled = 0
    /\ progress_log = <<>>
    /\ plast = [op |-> "new_router", pre |-> "Some", ret |-> NotCalled]
    /\ OmniIdle
    /\ state = Uninitialized
    /\ service = <<>>
    /\ inputs = <<>>
    /\ trace = <<Uninitialized>>
    /\ last = [op |-> "new", method |-> "", pre |-> Uninitialized,
               received |-> 0, inner |-> "none", ret |-> "none"]
    /\ futures = <<>>
    /\ counter = 0
    /\ reached = <<>>
    /\ permits = 0

\* A `$/progress` notification reaches the hook.  After a panic the hook is
\* not called again.
Progress ==
    /\ Len(progress_log) < MaxProgress
    /\ plast.ret # Panic
    /\ \E token \in Tokens, value \in WorkDone :
        LET r == progress(indexed_tx, token, value)
        IN /\ indexed_tx' = r.indexed_tx
           /\ signalled' = signalled + r.sent
           /\ progress_log' = Append(progress_log, [token |-> token, value |-> value])
           /\ plast' = [op |-> "progress", pre |-> indexed_tx, ret |-> r.ret]
    /\ UNCHANGED <<lifecycle_vars, omni_vars>>

ClientNext == Progress

SpecClient == ClientInit /\ [][ClientNext]_vars

----------------------------------------------------------------------------
(* Properties of the lifecycle matrix.  Each reads the last operation: the *)
(* state before it (last.pre), the state after it (state), the messages    *)
(* the inner service holds after it (service) against the number it held   *)
(* before (last.received), and the value returned (last.ret).              *)

\* The last operation handed its message to the inner service.
Forwarded(kind) ==
    /\ Len(service) = last.received + 1
    /\ service[Len(service)] = Msg(kind, last.method)

\* The last operation handed nothing to the inner service.
NotForwarded == Len(service) = last.received

OtherNotification == last.method \notin {Initialized_METHOD, Exit_METHOD}

HappyPath ==
    << Msg("request", Initialize_METHOD), Msg("notification", Initialized_METHOD),
       Msg("request", Shutdown_METHOD), Msg("notification", Exit_METHOD) >>

\* C1: an `initialize` request in state Uninitialized is forwarded to the
\* inner service, the future returned is the inner service's future, and the
\* state becomes Initializing.
C1_InitializeForwarded ==
    (last.op = "call" /\ last.pre = Uninitialized /\ last.method = Initialize_METHOD)
        => /\ Forwarded("request")
           /\ last.ret = Left(last.inner)
           /\ state = Initializing

C1_Witness ==
    /\ last.op = "call" /\ last.pre = Uninitialized /\ last.method = Initialize_METHOD
    /\ state = Initializing
    /\ service = <<Msg("request", Initialize_METHOD)>>

\* C2: in state Uninitialized or Initializing every request whose method is
\* not `initialize` is answered with SERVER_NOT_INITIALIZED, is not forwarded
\* and leaves the state unchanged.
C2_PreInitReject ==
    (/\ last.op = "call"
     /\ last.pre \in {Uninitialized, Initializing}
     /\ last.method # Initialize_METHOD)
        => /\ last.ret = Right(SERVER_NOT_INITIALIZED)
           /\ NotForwarded
           /\ state = last.pre

C2_Witness ==
    /\ last.op = "call" /\ last.pre = Initializing /\ last.method = Shutdown_METHOD
    /\ last.ret = Right(SERVER_NOT_INITIALIZED)
    /\ state = Initializing

\* C3 as stated: in state Initializing a further `initialize` request is
\* answered with INVALID_REQUEST, is not forwarded and leaves the state
\* Initializing.
C3_AsStated ==
    (last.op = "call" /\ last.pre = Initializing /\ last.method = Initialize_METHOD)
        => /\ last.ret = Right(INVALID_REQUEST)
           /\ NotForwarded
           /\ state = Initializing

\* C3 as amended: in state Initializing a further `initialize` request is
\* answered with SERVER_NOT_INITIALIZED, is not forwarded and leaves the
\* state Initializing.
C3_SecondInitialize ==
    (last.op = "call" /\ last.pre = Initializing /\ last.method = Initialize_METHOD)
        => /\ last.ret = Right(SERVER_NOT_INITIALIZED)
           /\ NotForwarded
           /\ state = Initializing

C3_Witness ==
    /\ last.op = "call" /\ last.pre = Initializing /\ last.method = Initialize_METHOD
    /\ inputs = <<Msg("request", Initialize_METHOD), Msg("request", Initialize_METHOD)>>
    /\ service = <<Msg("request", Initialize_METHOD)>>

\* C4: in state Ready every request whose method is not `initialize` is
\* forwarded to the inner service; the state becomes ShuttingDown if and only
\* if the method is `shutdown`, and otherwise stays Ready.
C4_ReadyForwards ==
    (last.op = "call" /\ last.pre = Ready /\ last.method # Initialize_METHOD)
        => /\ Forwarded("request")
           /\ last.ret = Left(last.inner)
           /\ (state = ShuttingDown) <=> (last.method = Shutdown_METHOD)
           /\ (last.method # Shutdown_METHOD) => (state = Ready)

C4_Witness ==
    /\ last.op = "call" /\ last.pre = Ready /\ last.method = Shutdown_METHOD
    /\ state = ShuttingDown
    /\ service = <<Msg("request", Initialize_METHOD), Msg("request", "textDocument/hover"),
                   Msg("request", Shutdown_METHOD)>>

\* C5: once initialization has completed, an `initialize` request in state
\* Ready or ShuttingDown, and every request in state ShuttingDown (a second
\* `shutdown` included), is answered with INVALID_REQUEST, is not forwarded
\* and leaves the state unchanged.
C5_PostInitReject ==
    (/\ last.op = "call"
     /\ \/ last.pre \in {Ready, ShuttingDown} /\ last.method = Initialize_METHOD
        \/ last.pre = ShuttingDown)
        => /\ last.ret = Right(INVALID_REQUEST)
           /\ NotForwarded
           /\ state = last.pre

C5_Witness ==
    /\ last.op = "call" /\ last.pre = ShuttingDown /\ last.method = Shutdown_METHOD
    /\ last.ret = Right(INVALID_REQUEST)
    /\ state = ShuttingDown

\* C6: an `exit` notification returns Break(Ok(())) in every lifecycle state,
\* whatever was delivered before it.
C6_ExitBreaksOk ==
    (last.op = "notify" /\ last.method = Exit_METHOD)
        => /\ last.pre \in State
           /\ last.ret = BreakOk

C6_Witness ==
    /\ last.op = "notify" /\ last.method = Exit_METHOD
    /\ last.pre = Ready
    /\ last.ret = BreakOk

\* C7: an `initialized` notification is accepted exactly in state
\* Initializing, where it sets the state to Ready and returns Continue; in the
\* other three states it returns Break(Err(protocol error)) and leaves the
\* state unchanged.  It is never forwarded, and it is the only input on which
\* the middleware itself breaks the loop with an error.
C7_InitializedOnlyWhenInitializing ==
    /\ (last.op = "notify" /\ last.method = Initialized_METHOD)
        => /\ NotForwarded
           /\ IF last.pre = Initializing
              THEN state = Ready /\ last.ret = Continue
              ELSE state = last.pre /\ last.ret = BreakErr("Protocol")
    /\ (/\ last.op \in {"notify", "emit"}
        /\ NotForwarded
        /\ last.ret.tag = "Break" /\ last.ret.err # "Ok")
        => /\ last.op = "notify"
           /\ last.method = Initialized_METHOD
           /\ last.pre # Initializing

C7_Witness ==
    /\ last.op = "notify" /\ last.method = Initialized_METHOD
    /\ last.pre = Ready
    /\ last.ret = BreakErr("Protocol")
    /\ state = Ready

\* C8 as stated: in state Uninitialized or Initializing a notification other
\* than `initialized` and `exit` is ignored: notify returns Continue and the
\* notification is not delivered to the inner service.
C8_AsStated ==
    (/\ last.op = "notify"
     /\ last.pre \in {Uninitialized, Initializing}
     /\ OtherNotification)
        => /\ last.ret = Continue
           /\ NotForwarded

\* C9: in state Ready or ShuttingDown a notification other than `initialized`
\* and `exit` is forwarded to the inner service, notify returns exactly what
\* the inner service returned, and the state is unchanged.
C9_NotificationForwarded ==
    (/\ last.op = "notify"
     /\ last.pre \in {Ready, ShuttingDown}
     /\ OtherNotification)
        => /\ Forwarded("notification")
           /\ last.ret = last.inner
           /\ state = last.pre

C9_Witness ==
    /\ last.op = "notify" /\ last.pre = ShuttingDown
    /\ last.method = "textDocument/didOpen"
    /\ last.inner = BreakErr("Other")
    /\ last.ret = BreakErr("Other")

\* C10: the distinct values taken by the state, in order, are a prefix of
\* Uninitialized, Initializing, Ready, ShuttingDown (no step backward, no
\* state skipped, ShuttingDown never left), and the inputs initialize,
\* initialized, shutdown, exit visit all four.
C10_StateProgression ==
    /\ Len(trace) \in 1..Len(StateOrder)
    /\ trace = SubSeq(StateOrder, 1, Len(trace))
    /\ state = trace[Len(trace)]
    /\ (Len(inputs) >= Len(HappyPath) /\ SubSeq(inputs, 1, Len(HappyPath)) = HappyPath)
        => trace = StateOrder

C10_Witness ==
    /\ inputs = HappyPath
    /\ trace = StateOrder
    /\ state = ShuttingDown
    /\ last.ret = BreakOk

\* C11: the state is changed only by an `initialize` request in
\* Uninitialized, an `initialized` notification in Initializing and a
\* `shutdown` request in Ready; poll_ready, emit and every other or rejected
\* request or notification leave it as it was.
C11_StateFrame ==
    (state # last.pre)
        => \/ last.op = "call" /\ last.pre = Uninitialized
              /\ last.method = Initialize_METHOD /\ state = Initializing
           \/ last.op = "notify" /\ last.pre = Initializing
              /\ last.method = Initialized_METHOD /\ state = Ready
           \/ last.op = "call" /\ last.pre = Ready
              /\ last.method = Shutdown_METHOD /\ state = ShuttingDown

C11_Witness ==
    /\ last.op = "notify" /\ last.method = Exit_METHOD
    /\ last.pre = Ready /\ state = Ready
    /\ Len(inputs) = 3

----------------------------------------------------------------------------
(* Properties of what the inner service receives. *)

\* The requests the inner service has received, in order.
Requests == SelectSeq(service, LAMBDA m : m.kind = "request")

\* The futures of forwarded requests that have not completed.
Pending == {i \in 1..Len(futures) : futures[i] = "pending"}

\* The positions in `service` of the forwarded requests with the method.
Forwards(method) == {i \in 1..Len(service) : service[i] = Msg("request", method)}

\* C15: in the simple_server stack every request is seen by Lifecycle before
\* any other layer; a request Lifecycle rejects reaches none of CatchUnwind,
\* Concurrency, ClientProcessMonitor and the Router, and takes no permit.
C15_LifecycleOutermost ==
    /\ (reached # <<>>) => (reached[1] = "Lifecycle")
    /\ (last.op = "call" /\ last.ret.either = "Right") => (reached = <<"Lifecycle">>)
    /\ (last.op = "call" /\ last.ret.either = "Left")
        => (reached = <<"Lifecycle", "CatchUnwind", "Concurrency",
                        "ClientProcessMonitor", "Router">>)
    /\ permits = Cardinality(Pending)

C15_Witness ==
    /\ last.op = "call" /\ last.pre = ShuttingDown /\ last.method = "textDocument/hover"
    /\ last.ret = Right(INVALID_REQUEST)
    /\ reached = <<"Lifecycle">>
    /\ permits = 2

\* C16: the inner service receives at most one `initialize` and at most one
\* `shutdown` request, `initialize` before any other request, nothing after
\* `shutdown`, and a request other than `initialize` only when the state at
\* dispatch is Ready.
C16_InnerRequestOrder ==
    /\ Cardinality(Forwards(Initialize_METHOD)) <= 1
    /\ Cardinality(Forwards(Shutdown_METHOD)) <= 1
    /\ (Requests # <<>>) => (Requests[1].method = Initialize_METHOD)
    /\ \A i \in 1..Len(Requests) :
        (Requests[i].method = Shutdown_METHOD) => (i = Len(Requests))
    /\ (last.op = "call" /\ Len(service) > last.received
        /\ last.method # Initialize_METHOD) => (last.pre = Ready)

C16_Witness ==
    /\ Requests = <<Msg("request", Initialize_METHOD), Msg("request", Shutdown_METHOD)>>
    /\ last.op = "call" /\ last.method = Shutdown_METHOD /\ last.pre = ShuttingDown
    /\ NotForwarded

\* C17: the transition is made when the request is dispatched and does not
\* depend on what the forwarded future yields: completion of a future leaves
\* the state as it was; after `initialize` failed the state is not
\* Uninitialized and a retried `initialize` is rejected and never forwarded;
\* after `shutdown` failed the state is ShuttingDown.
C17_TransitionAtDispatch ==
    /\ (last.op = "resolve") => (state = last.pre /\ NotForwarded)
    /\ \A i \in Forwards(Initialize_METHOD) :
        (futures[i] = "Err")
            => /\ state # Uninitialized
               /\ Forwards(Initialize_METHOD) = {i}
               /\ (last.op = "call" /\ last.method = Initialize_METHOD /\ last.received >= i)
                    => (NotForwarded /\ last.ret.either = "Right")
    /\ \A i \in Forwards(Shutdown_METHOD) :
        (futures[i] = "Err") => (state = ShuttingDown)

C17_Witness ==
    /\ inputs = <<Msg("request", Initialize_METHOD), Msg("request", Initialize_METHOD)>>
    /\ futures = <<"Err">>
    /\ last.op = "call" /\ last.ret = Right(SERVER_NOT_INITIALIZED)
    /\ state = Initializing

\* C18 as stated: Ready is reached only after the response to the forwarded
\* `initialize` request has been produced; an `initialized` notification
\* that arrives while that future is pending does not move the state to
\* Ready.
C18_AsStated ==
    /\ (state = Ready)
        => \E i \in Forwards(Initialize_METHOD) : futures[i] # "pending"
    /\ (/\ last.op = "notify" /\ last.method = Initialized_METHOD
        /\ \E i \in Forwards(Initialize_METHOD) : futures[i] = "pending")
        => (state # Ready)

\* C18 as amended: Ready is reached only after the `initialize` request has
\* been forwarded to the inner service; whether its response has been
\* produced plays no part: an `initialized` notification in state
\* Initializing moves the state to Ready also while that future is pending.
C18_ReadyAfterDispatch ==
    /\ (state \in {Ready, ShuttingDown}) => (Forwards(Initialize_METHOD) # {})
    /\ (/\ last.op = "notify" /\ last.method = Initialized_METHOD
        /\ last.pre = Initializing)
        => (state = Ready)

C18_Witness ==
    /\ last.op = "notify" /\ last.method = Initialized_METHOD
    /\ last.pre = Initializing /\ state = Ready
    /\ service = <<Msg("request", Initialize_METHOD)>>
    /\ futures = <<"pending">>

\* C20: events are not gated by the lifecycle: in every state emit delivers
\* the event to the inner service, returns exactly what the inner service
\* returned and leaves the state as it was; the counter of simple_server
\* counts every TickEvent emitted, whatever the state.
C20_EmitNeverGated ==
    /\ (last.op = "emit")
        => /\ Forwarded("event")
           /\ last.ret = last.inner
           /\ state = last.pre
    /\ counter = Cardinality({i \in 1..Len(inputs) : inputs[i] = Msg("event", "TickEvent")})

C20_Witness ==
    /\ inputs = <<Msg("event", "TickEvent"), Msg("request", Initialize_METHOD),
                  Msg("event", "TickEvent")>>
    /\ last.op = "emit" /\ last.pre = Initializing
    /\ last.ret = BreakErr("Other")
    /\ counter = 2

----------------------------------------------------------------------------
(* Properties of the omni traits and the Routers built from them. *)

\* The last dispatch ran the default body of a hook of the trait.
DefaultRan == olast.hook # "" /\ olast.hook \notin overrides

\* The notification methods of the traits whose names begin with `$/`.
DollarSlash == {"$/cancelRequest", "$/setTrace", "$/progress", "$/logTrace"}

\* The hook each trait has for a method.
TraitHook(sd, kind, method) ==
    IF sd = "server" /\ kind = "request" THEN
        CASE method = "initialize" -> "initialize"
          [] method = "shutdown" -> "shutdown"
          [] method = "textDocument/hover" -> "hover"
          [] method = "textDocument/definition" -> "definition"
          [] OTHER -> ""
    ELSE IF sd = "server" THEN
        CASE method = "exit" -> "exit"
          [] method = "initialized" -> "initialized"
          [] method = "textDocument/didOpen" -> "did_open"
          [] method = "workspace/didChangeConfiguration" -> "did_change_configuration"
          [] method = "$/cancelRequest" -> "cancel_request"
          [] method = "$/setTrace" -> "set_trace"
          [] OTHER -> ""
    ELSE IF kind = "request" THEN
        CASE method = "workspace/configuration" -> "configuration"
          [] method = "window/showMessageRequest" -> "show_message_request"
          [] OTHER -> ""
    ELSE
        CASE method = "window/showMessage" -> "show_message"
          [] method = "textDocument/publishDiagnostics" -> "publish_diagnostics"
          [] method = "telemetry/event" -> "telemetry_event"
          [] method = "$/progress" -> "progress"
          [] method = "$/logTrace" -> "log_trace"
          [] OTHER -> ""

\* C12: the default body of a notification hook of LanguageServer, and of
\* LanguageClient with NotifyResult the ControlFlow type, returns Continue
\* when the method name starts with `$/` and Break(Err(protocol error))
\* otherwise; the `exit` hook of LanguageServer defaults to Break(Ok(())).
C12_NotificationDefaults ==
    (olast.kind = "notification" /\ DefaultRan)
        => IF side = "server" /\ olast.method = Exit_METHOD
           THEN olast.ret = BreakOk
           ELSE IF olast.method \in DollarSlash
           THEN olast.ret = Continue
           ELSE olast.ret = BreakErr("Protocol")

C12_Witness ==
    /\ side = "client" /\ olast.kind = "notification" /\ DefaultRan
    /\ olast.method = "$/progress"
    /\ olast.ret = Continue
    /\ invoked = <<"show_message", "progress">>

\* C13: the default body of a request hook of LanguageServer and of
\* LanguageClient yields a ResponseError with code METHOD_NOT_FOUND, except
\* that `shutdown` of the server yields Ok(()) and `initialize` has no
\* default, so every implementer of LanguageServer defines it.
C13_RequestDefaults ==
    /\ (olast.kind = "request" /\ DefaultRan)
        => IF side = "server" /\ olast.method = Shutdown_METHOD
           THEN olast.ret = Ok
           ELSE olast.ret = Err(METHOD_NOT_FOUND)
    /\ (side = "server") => ("initialize" \in overrides)
    /\ (side = "client") => (Required(side) = {})

C13_Witness ==
    /\ side = "server" /\ olast.kind = "request" /\ DefaultRan
    /\ olast.method = Shutdown_METHOD
    /\ olast.ret = Ok
    /\ invoked = <<"hover", "shutdown">>

\* C14: the Routers built by from_language_server and from_language_client
\* hold one handler per method of the trait, and dispatching a method of the
\* trait invokes the implementer's hook for it, and no other hook, and
\* returns what the hook returned; `initialize`, `shutdown` and `exit`
\* included.
C14_OneShimPerMethod ==
    /\ (side = "server")
        => /\ DOMAIN router.request_handlers =
                {"initialize", "shutdown", "textDocument/hover", "textDocument/definition"}
           /\ DOMAIN router.notification_handlers =
                {"exit", "initialized", "textDocument/didOpen",
                 "workspace/didChangeConfiguration", "$/cancelRequest", "$/setTrace"}
    /\ (side = "client")
        => /\ DOMAIN router.request_handlers =
                {"workspace/configuration", "window/showMessageRequest"}
           /\ DOMAIN router.notification_handlers =
                {"window/showMessage", "textDocument/publishDiagnostics",
                 "telemetry/event", "$/progress", "$/logTrace"}
    /\ (olast.kind # "none" /\ TraitHook(side, olast.kind, olast.method) # "")
        => /\ olast.hook = TraitHook(side, olast.kind, olast.method)
           /\ invoked = Append(SubSeq(invoked, 1, olast.before), olast.hook)
           /\ olast.ret = olast.impl

C14_Witness ==
    /\ side = "server" /\ olast.kind = "notification" /\ olast.method = Exit_METHOD
    /\ "exit" \in overrides
    /\ olast.ret = Continue
    /\ invoked = <<"initialize", "exit">>

\* C19: Lifecycle never hands an `exit` or `initialized` notification to the
\* inner service, in any state; so with Router::from_language_server as the
\* inner service the implementer's `exit` and `initialized` hooks are never
\* invoked.
C19_ExitInitializedConsumed ==
    /\ (last.op = "notify" /\ last.method \in {Exit_METHOD, Initialized_METHOD})
        => NotForwarded
    /\ \A i \in 1..Len(service) :
        (service[i].kind = "notification")
            => /\ service[i].method \notin {Exit_METHOD, Initialized_METHOD}
               /\ Lookup(from_language_server.notification_handlers, service[i].method)
                    \notin {"exit", "initialized"}

C19_Witness ==
    /\ last.op = "notify" /\ last.method = Initialized_METHOD
    /\ last.pre = Initializing /\ state = Ready
    /\ service = <<Msg("notification", "textDocument/didOpen"),
                   Msg("request", Initialize_METHOD)>>

----------------------------------------------------------------------------
(* Properties of the client_trait example. *)

\* C21 as stated: the `progress` hook returns Continue for every sequence of
\* progress notifications; the WorkDone End notification for token
\* `rustAnalyzer/Indexing`, received more than once, signals the indexed
\* channel at most once and neither panics nor ends the client loop.
C21_AsStated ==
    /\ signalled <= 1
    /\ (plast.op = "progress") => (plast.ret = Continue)

====
